---- MODULE Spec2Model ----
(***************************************************************************)
(* Training-set sampler of the reduced-basis offline stage                 *)
(* (RBConstructionBase): generation and parallel distribution of the       *)
(* training set, the owner broadcast of a training parameter and the       *)
(* max-with-location reduction of the greedy error bound.                  *)
(*                                                                         *)
(* The workers run the same program (SPMD): a collective operation is one  *)
(* action in which every worker executes the handler.  Worker ranks are    *)
(* 0 .. nprocs-1.  Parameter names are the naturals 1, 2, 3, ordered as    *)
(* std::map orders the name strings.  libmesh_assert is modelled as        *)
(* enabled: a failed assertion ends the call with status "assert".         *)
(***************************************************************************)
EXTENDS Integers, Sequences, FiniteSets, TLC

(* ---------------- bounds of the model ---------------- *)
MaxProcs == 3
MaxSamples == 4
MaxLocal == 2
MaxCalls == 2
MaxOps == 3
RandMax == 3
SeedBits == 4

(* ---------------- Real numbers ---------------- *)
(* A Real is an exact rational [k = "rat", a = numerator, b = denominator] *)
(* in lowest terms, or one of the two symbolic powers of ten the samplers  *)
(* compute with log10/pow (arithmetic is exact: rounding is not modelled). *)
Abs(x) == IF x < 0 THEN -x ELSE x

RECURSIVE GCD(_, _)
GCD(x, y) == IF y = 0 THEN x ELSE GCD(y, x % y)

Rat(n, d) ==
  LET g == GCD(Abs(n), Abs(d))
      s == IF d < 0 THEN -1 ELSE 1
  IN [k |-> "rat", a |-> (s * n) \div g, b |-> (s * d) \div g, j |-> 0, m |-> 1]

Zero == Rat(0, 1)
RAdd(x, y) == Rat(x.a * y.b + y.a * x.b, x.b * y.b)
RSub(x, y) == Rat(x.a * y.b - y.a * x.b, x.b * y.b)
RMul(x, y) == Rat(x.a * y.a, x.b * y.b)
RDiv(x, y) == Rat(x.a * y.b, x.b * y.a)
RLess(x, y) == x.a * y.b < y.a * x.b
RAbs(x) == Rat(Abs(x.a), x.b)

(* pow(10., log10(lo+eps) + jj * (log10((hi-eps)/(lo+eps)) / mm)): the log *)
(* grid point of the deterministic sampler, kept symbolic.                *)
Pow10Grid(lo, hi, jj, mm) == [k |-> "pow10grid", a |-> lo, b |-> hi, j |-> jj, m |-> mm]
(* pow(10., log10(lo) + (r/RAND_MAX) * log10(hi/lo)): the log-scaled random *)
(* sample, kept symbolic.                                                  *)
Pow10Rand(lo, hi, r) == [k |-> "pow10rand", a |-> lo, b |-> hi, j |-> r, m |-> RandMax]

(* ---------------- NumericVector ---------------- *)
NullVec == [alloc |-> FALSE, size |-> 0, first |-> 0, last |-> 0, vals |-> <<>>]
NewVec(n, f, l) ==
  [alloc |-> TRUE, size |-> n, first |-> f, last |-> l,
   vals |-> [i \in f .. (l - 1) |-> Zero]]
VecSet(v, i, x) == [v EXCEPT !.vals = [@ EXCEPT ![i] = x]]

RECURSIVE SumTo(_, _)
SumTo(c, r) == IF r = 0 THEN 0 ELSE c[r - 1] + SumTo(c, r - 1)

(* init(n_global, n_local, false, PARALLEL): worker r's range starts at the *)
(* sum of the local sizes of the lower ranks.                              *)
InitParallel(n, counts, r) == NewVec(n, SumTo(counts, r), SumTo(counts, r) + counts[r])
(* init(n, false, SERIAL): every worker holds all n entries.               *)
InitSerial(n) == NewVec(n, 0, n)

(* ---------------- parameter spaces (inputs) ---------------- *)
EmptyMap == <<>>
Names(mu) == DOMAIN mu
Begin(mu) == CHOOSE nm \in DOMAIN mu : \A o \in DOMAIN mu : nm <= o
MapOf(S, f(_)) == [nm \in S |-> f(nm)]

MinOf(nm) == 1
MaxOf(nm) == IF nm = 1 THEN 2 ELSE 3
NameSets == {{}, {1}, {2}, {1, 2}, {1, 2, 3}}

VARIABLES nprocs, serial_training_set, training_parameters_initialized,
          training_parameters_random_seed, training_parameters,
          parameters_min, parameters_max, discrete_parameter_values,
          parameters, result, calls, error_pair,
          theta_q_a_vector, theta_q_f_vector, F_EIM_systems_vector,
          n_affine_functions, RB_system_initialized,
          greedy_state, Nmax, delta_N, training_tolerance, n_basis_functions,
          greedy_param_list, factory_map, factories

vars == <<nprocs, serial_training_set, training_parameters_initialized,
          training_parameters_random_seed, training_parameters,
          parameters_min, parameters_max, discrete_parameter_values,
          parameters, result, calls, error_pair,
          theta_q_a_vector, theta_q_f_vector, F_EIM_systems_vector,
          n_affine_functions, RB_system_initialized,
          greedy_state, Nmax, delta_N, training_tolerance, n_basis_functions,
          greedy_param_list, factory_map, factories>>

(* The affine-expansion registry of RBSystem: the attached theta functors  *)
(* of the operators and of the right-hand sides, the attached EIM systems, *)
(* the number of affine functions each EIM system currently holds, and the *)
(* flag set once the system has been initialized.                          *)
rbVars == <<theta_q_a_vector, theta_q_f_vector, F_EIM_systems_vector, n_affine_functions, RB_system_initialized>>

(* The state outside the training-set sampler.                             *)
(* The greedy trainer of RBSystem: its state, the settings Nmax, delta_N   *)
(* and training_tolerance, the size of the basis and the list of the       *)
(* parameters chosen so far.                                               *)
greedyVars == <<greedy_state, Nmax, delta_N, training_tolerance, n_basis_functions, greedy_param_list>>

(* The name-based factory: the static map from names to Factory objects    *)
(* and the Factory objects constructed so far (factories[f] is the name    *)
(* the f-th object was constructed with).                                  *)
factoryVars == <<factory_map, factories>>

otherVars == <<error_pair, rbVars, greedyVars, factoryVars>>

Procs == 0 .. (nprocs - 1)

(* calls counts the operations of the run; every specification bounds it,  *)
(* by MaxCalls where every input of the generators is drawn and by MaxOps  *)
(* elsewhere.                                                              *)

(* ---------------- partition of the samples ---------------- *)
(* Number of training samples local to worker r of P, as the random        *)
(* generator computes it.                                                  *)
LocalCountRandom(n, P, r) ==
  LET quotient == n \div P
      remainder == n % P
  IN IF r < remainder THEN quotient + 1 ELSE quotient

(* Variant that gives the extra sample to the highest ranks.               *)
LocalCountRemainderLast(n, P, r) ==
  LET quotient == n \div P
      remainder == n % P
  IN IF r >= P - remainder THEN quotient + 1 ELSE quotient

(* The same computation in the deterministic generator.                    *)
LocalCountDeterministic(n, P, r) ==
  LET quotient == n \div P
      remainder == n % P
  IN IF r < remainder THEN quotient + 1 ELSE quotient

(* training_parameters_in[param_name] = build; ->init(...) for every name  *)
(* of min_parameters (random generator).                                   *)
AllocVectorsRandom(tp, names, n, P, r, serial) ==
  [nm \in (DOMAIN tp) \cup names |->
     IF nm \in names
       THEN IF ~serial
              THEN InitParallel(n, [q \in 0 .. (P - 1) |-> LocalCountRandom(n, P, q)], r)
              ELSE InitSerial(n)
       ELSE tp[nm]]

(* A variant that distributes the vectors whatever the serial flag says.   *)
AllocVectorsParallelOnly(tp, names, n, P, r, serial) ==
  [nm \in (DOMAIN tp) \cup names |->
     IF nm \in names
       THEN InitParallel(n, [q \in 0 .. (P - 1) |-> LocalCountDeterministic(n, P, q)], r)
       ELSE tp[nm]]

(* The same for the deterministic generator; the other keys of the map     *)
(* are kept as they are.                                                   *)
AllocVectorsDeterministic(tp, names, n, P, r, serial) ==
  [nm \in (DOMAIN tp) \cup names |->
     IF nm \in names
       THEN IF ~serial
              THEN InitParallel(n, [q \in 0 .. (P - 1) |-> LocalCountDeterministic(n, P, q)], r)
              ELSE InitSerial(n)
       ELSE tp[nm]]

(* pr.second.reset(nullptr) for every key.                                 *)
ResetAll(tp) == [nm \in DOMAIN tp |-> NullVec]

(* std::max((unsigned int)1, x); x = n-1 is evaluated only inside loops    *)
(* that run when n >= 1, so the unsigned wrap of 0-1 is never reached.     *)
Max1(x) == IF x > 1 THEN x ELSE 1

ISqrt(n) == CHOOSE s \in 0 .. n : s * s <= n /\ n < (s + 1) * (s + 1)

(* One-parameter grid value at global index idx of n.                      *)
GridValue1(use_log_scaling, min_param, max_param, index, n) ==
  IF use_log_scaling
    THEN IF index < n - 1
           THEN Pow10Grid(min_param, max_param, index, Max1(n - 1))
           ELSE Rat(max_param, 1)
    ELSE LET step_size == RDiv(RSub(Rat(max_param, 1), Rat(min_param, 1)),
                               Rat(Max1(n - 1), 1))
         IN RAdd(RMul(Rat(index, 1), step_size), Rat(min_param, 1))

(* training_parameters_matrix[i][j] of the two-parameter grid.             *)
GridValue2(use_log_scaling, min_param, max_param, jj, per_var) ==
  IF use_log_scaling
    THEN IF jj < per_var - 1
           THEN Pow10Grid(min_param, max_param, jj, Max1(per_var - 1))
           ELSE Rat(max_param, 1)
    ELSE LET step_size == RDiv(RSub(Rat(max_param, 1), Rat(min_param, 1)),
                               Rat(Max1(per_var - 1), 1))
         IN RAdd(RMul(Rat(jj, 1), step_size), Rat(min_param, 1))

(* The perfect-square test on n_training_samples_in.                       *)
NeverRejected(per_var, n) == FALSE

NotSquare(per_var, n) == per_var * per_var # n

(* Variant of the grid index that runs down the columns.                   *)
ColumnMajorIndex(index1, index2, per_var) == index2 * per_var + index1

(* index = index1*n_training_parameters_per_var + index2                   *)
GridIndex(index1, index2, per_var) == index1 * per_var + index2

Second(mu) == Begin([nm \in (DOMAIN mu) \ {Begin(mu)} |-> mu[nm]])

(* The num_params == 1 branch on one worker.                               *)
FillOne(tp, log_param_scale, n, min_parameters, max_parameters) ==
  LET key == Begin(tp)
      training_vector == tp[key]
      use_log_scaling == log_param_scale[Begin(log_param_scale)]
      min_param == min_parameters[Begin(min_parameters)]
      max_param == max_parameters[Begin(max_parameters)]
  IN IF ~training_vector.alloc
       THEN [st |-> "segv", tp |-> tp]
       ELSE [st |-> "ok",
             tp |-> [tp EXCEPT ![key] =
                       [training_vector EXCEPT !.vals =
                          [index \in DOMAIN training_vector.vals |->
                             GridValue1(use_log_scaling, min_param, max_param, index, n)]]]]

(* The num_params == 2 branch on one worker.                               *)
FillTwo(tp, log_param_scale, n, min_parameters, max_parameters) ==
  LET per_var == ISqrt(n)
      name0 == Begin(min_parameters)
      name1 == Second(min_parameters)
      matrix0(jj) == GridValue2(log_param_scale[name0], min_parameters[name0],
                                max_parameters[name0], jj, per_var)
      matrix1(jj) == GridValue2(log_param_scale[name1], min_parameters[name1],
                                max_parameters[name1], jj, per_var)
      key0 == Begin(tp)
      key1 == Second(tp)
      v0 == tp[key0]
      v1 == tp[key1]
      Pairs(index) == {pr \in (0 .. (per_var - 1)) \X (0 .. (per_var - 1)) :
                         GridIndex(pr[1], pr[2], per_var) = index}
      Pair(index) == CHOOSE pr \in Pairs(index) : TRUE
  IN IF NotSquare(per_var, n)
       THEN [st |-> "error", tp |-> tp]
     ELSE IF per_var = 0
       THEN [st |-> "ok", tp |-> tp]
     ELSE IF ~v0.alloc \/ (~v1.alloc /\ v0.first < v0.last)
       THEN [st |-> "segv", tp |-> tp]
     ELSE IF ~v1.alloc
       THEN [st |-> "ok", tp |-> tp]
     ELSE [st |-> "ok",
           tp |-> [tp EXCEPT
                     ![key0] = [v0 EXCEPT !.vals =
                        [index \in DOMAIN v0.vals |->
                           IF Pairs(index) # {} THEN matrix0(Pair(index)[1])
                           ELSE v0.vals[index]]],
                     ![key1] = [v1 EXCEPT !.vals =
                        [index \in DOMAIN v1.vals |->
                           IF index \in DOMAIN v0.vals /\ Pairs(index) # {}
                             THEN matrix1(Pair(index)[2])
                             ELSE v1.vals[index]]]]]

(* generate_training_parameters_deterministic on worker r: the new map and *)
(* how the call ended.                                                     *)
generate_training_parameters_deterministic(tp, log_param_scale, n, min_parameters, max_parameters, serial, P, r) ==
  LET num_params == Cardinality(DOMAIN min_parameters)
      tp1 == AllocVectorsDeterministic(ResetAll(tp), DOMAIN min_parameters, n, P, r, serial)
  IN IF Cardinality(DOMAIN min_parameters) # Cardinality(DOMAIN max_parameters)
       THEN [st |-> "assert", tp |-> tp]
     ELSE IF num_params = 0
       THEN [st |-> "ok", tp |-> tp]
     ELSE IF num_params > 2
       THEN [st |-> "not_implemented", tp |-> tp]
     ELSE IF num_params = 1
       THEN FillOne(tp1, log_param_scale, n, min_parameters, max_parameters)
     ELSE FillTwo(tp1, log_param_scale, n, min_parameters, max_parameters)

(* ---------------- the C library generator ---------------- *)
(* srand(seed) followed by count calls of rand(): a linear congruential    *)
(* generator with outputs in 0 .. RandMax.                                 *)
RECURSIVE Rand(_, _)
Rand(seed, count) ==
  IF count = 0 THEN seed % (RandMax + 1)
  ELSE (5 * Rand(seed, count - 1) + 3) % (RandMax + 1)

(* Variant that multiplies by the rank in serial mode too.                 *)
SrandArgumentByRank(training_parameters_random_seed_in, serial, r, time) ==
  IF training_parameters_random_seed_in < 0
    THEN (time[r] * (1 + r)) % (2 ^ SeedBits)
    ELSE (training_parameters_random_seed_in * (1 + r)) % (2 ^ SeedBits)

(* The argument of std::srand on worker r, an unsigned of SeedBits bits;   *)
(* time is the worker's clock.                                             *)
SrandArgument(training_parameters_random_seed_in, serial, r, time) ==
  IF training_parameters_random_seed_in < 0
    THEN IF ~serial THEN (time[r] * (1 + r)) % (2 ^ SeedBits) ELSE time[0]
    ELSE IF ~serial THEN (training_parameters_random_seed_in * (1 + r)) % (2 ^ SeedBits)
         ELSE training_parameters_random_seed_in

(* Position of nm among the keys of mu, in key order, from 0.              *)
Position(mu, nm) == Cardinality({o \in DOMAIN mu : o < nm})

(* The value the random generator stores from the draw random_number/RAND_MAX. *)
RandomValue(use_log, min_param, max_param, r) ==
  IF use_log
    THEN Pow10Rand(min_param, max_param, r)
    ELSE RAdd(RMul(Rat(r, RandMax), RSub(Rat(max_param, 1), Rat(min_param, 1))),
              Rat(min_param, 1))

(* generate_training_parameters_random on worker r.                        *)
generate_training_parameters_random(tp, log_param_scale, n, min_parameters, max_parameters, seed_in, serial, P, r, time) ==
  LET num_params == Cardinality(DOMAIN min_parameters)
      seed == SrandArgument(seed_in, serial, r, time)
      tp1 == AllocVectorsRandom(EmptyMap, DOMAIN min_parameters, n, P, r, serial)
      Fill(nm) ==
        LET training_vector == tp1[nm]
            local_size == training_vector.last - training_vector.first
        IN [training_vector EXCEPT !.vals =
              [index \in DOMAIN training_vector.vals |->
                 RandomValue(log_param_scale[nm], min_parameters[nm], max_parameters[nm],
                             Rand(seed, Position(tp1, nm) * local_size
                                        + (index - training_vector.first) + 1))]]
  IN IF Cardinality(DOMAIN min_parameters) # Cardinality(DOMAIN max_parameters)
       THEN [st |-> "assert", tp |-> tp]
     ELSE IF num_params = 0
       THEN [st |-> "ok", tp |-> EmptyMap]
     ELSE [st |-> "ok", tp |-> [nm \in DOMAIN tp1 |-> Fill(nm)]]

(* ---------------- RBParametrized (parameter space) ---------------- *)
(* get_closest_value: closest by absolute difference, the earlier          *)
(* candidate of the list on a tie.                                         *)
get_closest_value(value, list) ==
  LET dist(i) == RAbs(RSub(value, list[i]))
      best == CHOOSE i \in DOMAIN list :
                \A o \in DOMAIN list :
                  RLess(dist(i), dist(o)) \/ (dist(i) = dist(o) /\ i <= o)
  IN list[best]

(* Variant: the candidate farthest from the value.                         *)
get_farthest_value(value, list) ==
  LET dist(i) == RAbs(RSub(value, list[i]))
      worst == CHOOSE i \in DOMAIN list :
                 \A o \in DOMAIN list :
                   RLess(dist(o), dist(i)) \/ (dist(i) = dist(o) /\ i <= o)
  IN list[worst]

(* Variants of the snapping pass: none at all, and to the farthest         *)
(* candidate.                                                              *)
SnapNothing(tp, discrete) == tp

SnapFarthest(tp, discrete) ==
  [nm \in DOMAIN tp |->
     IF nm \in DOMAIN discrete
       THEN [tp[nm] EXCEPT !.vals =
               [index \in DOMAIN tp[nm].vals |->
                  get_farthest_value(tp[nm].vals[index], discrete[nm])]]
       ELSE tp[nm]]

(* The snapping pass of initialize_training_parameters on one worker.      *)
SnapDiscrete(tp, discrete) ==
  IF DOMAIN discrete = {} THEN tp
  ELSE [nm \in DOMAIN tp |->
          IF nm \in DOMAIN discrete
            THEN [tp[nm] EXCEPT !.vals =
                    [index \in DOMAIN tp[nm].vals |->
                       get_closest_value(tp[nm].vals[index], discrete[nm])]]
            ELSE tp[nm]]

(* ---------------- state after construction ---------------- *)
NoResult == [op |-> "none", st |-> "ok", det |-> FALSE, n |-> 0, w |-> 0, index |-> 0,
             out |-> EmptyMap]
Result(o, s, d, nn, ww, i, x) ==
  [op |-> o, st |-> s, det |-> d, n |-> nn, w |-> ww, index |-> i, out |-> x]

(* RBSystem after construction: nothing attached, not initialized.         *)
EIMSystems == {1, 2}
RBSystemInit ==
  /\ theta_q_a_vector = <<>>
  /\ theta_q_f_vector = <<>>
  /\ F_EIM_systems_vector = <<>>
  /\ n_affine_functions = [e \in EIMSystems |-> 0]
  /\ RB_system_initialized = FALSE

(* No Factory object has been constructed.                                 *)
FactoryInit ==
  /\ factory_map = <<>>
  /\ factories = <<>>

(* The greedy trainer before any training.                                 *)
GreedyInit ==
  /\ greedy_state = "Uninitialized"
  /\ Nmax = 0
  /\ delta_N = 1
  /\ training_tolerance = 0
  /\ n_basis_functions = 0
  /\ greedy_param_list = <<>>

Init ==
  /\ nprocs \in 1 .. MaxProcs
  /\ serial_training_set = FALSE
  /\ training_parameters_initialized = FALSE
  /\ training_parameters_random_seed = -1
  /\ training_parameters = [w \in 0 .. (nprocs - 1) |-> EmptyMap]
  /\ parameters_min = EmptyMap
  /\ parameters_max = EmptyMap
  /\ discrete_parameter_values = EmptyMap
  /\ parameters = [w \in 0 .. (nprocs - 1) |-> EmptyMap]
  /\ result = NoResult
  /\ calls = 0
  /\ error_pair = [w \in 0 .. (nprocs - 1) |-> <<0, 0>>]
  /\ RBSystemInit
  /\ GreedyInit
  /\ FactoryInit

(* ---------------- RBParametrized::initialize_parameters ---------------- *)
DiscreteChoices(S) ==
  IF S = {1} THEN {EmptyMap, [nm \in {1} |-> <<Rat(1, 1), Rat(2, 1)>>]} ELSE {EmptyMap}

(* The parameter space is installed on every worker and the active         *)
(* parameter is set to mu_min.                                             *)
initialize_parameters(mu_min, mu_max, discrete) ==
  /\ parameters_min' = mu_min
  /\ parameters_max' = mu_max
  /\ discrete_parameter_values' = discrete
  /\ parameters' = [w \in Procs |-> [nm \in DOMAIN mu_min |-> Rat(mu_min[nm], 1)]]

(* ---------------- configuration ---------------- *)
SetSerialTrainingSet(b) ==
  /\ serial_training_set # b
  /\ serial_training_set' = b
  /\ result' = NoResult
  /\ UNCHANGED <<nprocs, training_parameters_initialized, training_parameters_random_seed,
                 training_parameters, parameters_min, parameters_max,
                 discrete_parameter_values, parameters, calls, otherVars>>

(* The unsigned seed stored into the int member: SeedBits-wide two's       *)
(* complement.                                                             *)
IntOfUnsigned(seed) ==
  IF seed >= 2 ^ (SeedBits - 1) THEN seed - 2 ^ SeedBits ELSE seed

Seeds == {0, 1, 2 ^ (SeedBits - 1) + 1}

set_training_random_seed(seed) ==
  /\ training_parameters_random_seed' = IntOfUnsigned(seed)
  /\ result' = NoResult
  /\ UNCHANGED <<nprocs, serial_training_set, training_parameters_initialized,
                 training_parameters, parameters_min, parameters_max,
                 discrete_parameter_values, parameters, calls, otherVars>>

(* ---------------- initialize_training_parameters ---------------- *)
(* The workers' clocks (std::time): equal, or skewed by rank.              *)
TimeChoices == {[w \in Procs |-> 1], [w \in Procs |-> 1 + w]}

LogChoices(S) ==
  IF Cardinality(S) <= 2 THEN [S -> BOOLEAN] ELSE {[nm \in S |-> FALSE]}

Worst(sts) ==
  IF \A w \in DOMAIN sts : sts[w] = "ok" THEN "ok"
  ELSE sts[CHOOSE w \in DOMAIN sts : sts[w] # "ok" /\ \A o \in DOMAIN sts : sts[o] # "ok" => w <= o]

initialize_training_parameters(mu_min, mu_max, n_training_samples, log_param_scale, deterministic, time, discrete) ==
  \E gen \in {[w \in Procs |->
                 IF deterministic
                   THEN generate_training_parameters_deterministic(
                          training_parameters[w], log_param_scale, n_training_samples,
                          mu_min, mu_max, serial_training_set, nprocs, w)
                   ELSE generate_training_parameters_random(
                          training_parameters[w], log_param_scale, n_training_samples,
                          mu_min, mu_max, training_parameters_random_seed,
                          serial_training_set, nprocs, w, time)]} :
  \E st \in {Worst([w \in Procs |-> gen[w].st])} :
     /\ training_parameters' =
          [w \in Procs |->
             IF st = "ok" THEN SnapDiscrete(gen[w].tp, discrete) ELSE gen[w].tp]
     /\ training_parameters_initialized' =
          IF st = "ok" THEN TRUE ELSE training_parameters_initialized
     /\ result' = Result("initialize_training_parameters", st, deterministic,
                         n_training_samples, 0, 0, log_param_scale)

(* The caller's configuration step: the parameter space is (re)declared    *)
(* and the training set is initialized from its ranges                     *)
(* (get_parameters_min(), get_parameters_max()).                           *)
Configure(S, discrete, n, log_param_scale, deterministic, time) ==
  /\ \A nm \in DOMAIN discrete : ~log_param_scale[nm]
  /\ initialize_parameters(MapOf(S, MinOf), MapOf(S, MaxOf), discrete)
  /\ initialize_training_parameters(MapOf(S, MinOf), MapOf(S, MaxOf), n, log_param_scale,
                                    deterministic, time, discrete)
  /\ calls' = calls + 1
  /\ UNCHANGED <<nprocs, serial_training_set, training_parameters_random_seed, otherVars>>

AllFalse(S) == {[nm \in S |-> FALSE]}
AllSame(S) == {[nm \in S |-> FALSE], [nm \in S |-> TRUE]}
RandomNameSets == {S \in NameSets : Cardinality(S) <= 2}
SkewedClock == {[w \in Procs |-> 1 + w]}
Sizes == 0 .. MaxSamples

NoDiscrete(S) == {EmptyMap}

(* The inputs a specification draws: discrete lists or none, and which     *)
(* log-scaling flags.                                                      *)
DiscreteOf(allowed, S) == IF allowed THEN DiscreteChoices(S) ELSE NoDiscrete(S)
LogsOf(kind, S) ==
  IF kind = "any" THEN LogChoices(S) ELSE IF kind = "same" THEN AllSame(S) ELSE AllFalse(S)

InitializeDeterministic(nameSets, sizes, allowed, kind) ==
  \E S \in nameSets : \E discrete \in DiscreteOf(allowed, S) :
  \E n \in sizes : \E log_param_scale \in LogsOf(kind, S) :
    Configure(S, discrete, n, log_param_scale, TRUE, [w \in Procs |-> 1])

InitializeRandom(nameSets, sizes, allowed, kind, times) ==
  \E S \in nameSets : \E discrete \in DiscreteOf(allowed, S) :
  \E n \in sizes : \E log_param_scale \in LogsOf(kind, S) :
  \E time \in times :
    Configure(S, discrete, n, log_param_scale, FALSE, time)

(* clear(): the parent data, the parameter space and the training set.     *)
clear ==
  /\ training_parameters' = [w \in Procs |-> EmptyMap]
  /\ parameters_min' = EmptyMap
  /\ parameters_max' = EmptyMap
  /\ discrete_parameter_values' = EmptyMap
  /\ parameters' = [w \in Procs |-> EmptyMap]
  /\ result' = Result("clear", "ok", FALSE, 0, 0, 0, EmptyMap)
  /\ UNCHANGED <<nprocs, serial_training_set, training_parameters_initialized,
                 training_parameters_random_seed, calls, otherVars>>

(* The sampler under every input of the generators.                        *)
Next ==
  \/ \E b \in BOOLEAN : SetSerialTrainingSet(b)
  \/ calls < MaxCalls /\ InitializeDeterministic(NameSets, Sizes, TRUE, "any")
  \/ calls < MaxCalls /\ InitializeRandom(RandomNameSets, Sizes, TRUE, "same", SkewedClock)
  \/ clear

Spec == Init /\ [][Next]_vars

(* Random generation under every seeding: caller-supplied seeds and equal  *)
(* or skewed clocks.                                                       *)
NextRandom ==
  \/ \E b \in BOOLEAN : SetSerialTrainingSet(b)
  \/ \E seed \in Seeds : set_training_random_seed(seed)
  \/ calls < MaxCalls /\ InitializeRandom(RandomNameSets, Sizes, TRUE, "same", TimeChoices)
  \/ clear

SpecRandom == Init /\ [][NextRandom]_vars

(* ---------------- training-set accessors ---------------- *)
(* An operation's outcome: how it ended and what it returned.  Where the   *)
(* code's behaviour is undefined an operation has a set of outcomes.       *)
Ret(s, x) == [st |-> s, val |-> x]

get_n_params == Cardinality(DOMAIN parameters_min)

(* get_n_training_samples on worker w.                                     *)
get_n_training_samples(w) ==
  IF ~training_parameters_initialized THEN Ret("assert", 0)
  ELSE IF DOMAIN training_parameters[w] = {} THEN Ret("ok", 0)
  ELSE IF ~training_parameters[w][Begin(training_parameters[w])].alloc THEN Ret("segv", 0)
  ELSE Ret("ok", training_parameters[w][Begin(training_parameters[w])].size)

(* What begin()->second->... yields on an empty map: the map's end node is *)
(* read as an entry, so the call crashes or returns whatever is there.     *)
GarbageIndices == {0, MaxSamples + 1}

get_local_n_training_samples(w) ==
  IF ~training_parameters_initialized THEN {Ret("assert", 0)}
  ELSE IF DOMAIN training_parameters[w] = {}
    THEN {Ret("segv", 0)} \cup {Ret("ok", g) : g \in GarbageIndices}
  ELSE IF ~training_parameters[w][Begin(training_parameters[w])].alloc THEN {Ret("segv", 0)}
  ELSE {Ret("ok", training_parameters[w][Begin(training_parameters[w])].last
                    - training_parameters[w][Begin(training_parameters[w])].first)}

get_first_local_training_index(w) ==
  IF ~training_parameters_initialized THEN {Ret("assert", 0)}
  ELSE IF DOMAIN training_parameters[w] = {}
    THEN {Ret("segv", 0)} \cup {Ret("ok", g) : g \in GarbageIndices}
  ELSE IF ~training_parameters[w][Begin(training_parameters[w])].alloc THEN {Ret("segv", 0)}
  ELSE {Ret("ok", training_parameters[w][Begin(training_parameters[w])].first)}

get_last_local_training_index(w) ==
  IF ~training_parameters_initialized THEN {Ret("assert", 0)}
  ELSE IF DOMAIN training_parameters[w] = {}
    THEN {Ret("segv", 0)} \cup {Ret("ok", g) : g \in GarbageIndices}
  ELSE IF ~training_parameters[w][Begin(training_parameters[w])].alloc THEN {Ret("segv", 0)}
  ELSE {Ret("ok", training_parameters[w][Begin(training_parameters[w])].last)}

(* (get_first_local_training_index() <= index) &&                          *)
(* (index < get_last_local_training_index())                               *)
InLocalRange(w, index) ==
  {IF f.st # "ok" THEN Ret(f.st, FALSE)
   ELSE IF f.val > index THEN Ret("ok", FALSE)
   ELSE IF l.st # "ok" THEN Ret(l.st, FALSE)
   ELSE Ret("ok", index < l.val) :
     f \in get_first_local_training_index(w), l \in get_last_local_training_index(w)}

(* The loop over the training set's keys reading each vector at index: a  *)
(* null slot is dereferenced, an index outside a vector's local range is   *)
(* rejected by the vector.                                                 *)
ReadEntry(tp, index) ==
  LET bad == {nm \in DOMAIN tp : ~tp[nm].alloc \/ index \notin DOMAIN tp[nm].vals}
  IN IF bad = {} THEN Ret("ok", [nm \in DOMAIN tp |-> tp[nm].vals[index]])
     ELSE IF ~tp[CHOOSE nm \in bad : \A o \in bad : nm <= o].alloc THEN Ret("segv", EmptyMap)
     ELSE Ret("assert", EmptyMap)

get_params_from_training_set(w, index) ==
  IF ~training_parameters_initialized THEN {Ret("assert", EmptyMap)}
  ELSE {IF t.st # "ok" THEN Ret(t.st, EmptyMap)
        ELSE IF ~t.val THEN Ret("assert", EmptyMap)
        ELSE ReadEntry(training_parameters[w], index) : t \in InLocalRange(w, index)}

(* RBParametrized::set_parameters: rejects a vector with the wrong number  *)
(* of parameters, otherwise replaces the active parameter.  (Its other     *)
(* check, that a parameter space has been declared, always passes where    *)
(* it is used below: the training set is flagged initialized only after    *)
(* initialize_parameters, and SpecAccess has no clear.)                    *)
set_parameters(current, params) ==
  IF Cardinality(DOMAIN params) # get_n_params THEN Ret("error", current)
  ELSE Ret("ok", params)

set_params_from_training_set(w, index) ==
  {IF g.st # "ok" THEN Ret(g.st, parameters[w]) ELSE set_parameters(parameters[w], g.val) :
     g \in get_params_from_training_set(w, index)}

(* current_parameters_vector: the values in the order of the names.        *)
ToVector(mu) ==
  [i \in 1 .. Cardinality(DOMAIN mu) |-> mu[CHOOSE nm \in DOMAIN mu : Position(mu, nm) = i - 1]]

(* comm().max(root_id), root_id being the rank on the owners and 0         *)
(* elsewhere.                                                              *)
RootIdLowest(owners) ==
  CHOOSE r \in owners \cup {0} : \A o \in owners \cup {0} : r <= o

(* A variant in which root_id stays 0 on every worker.                     *)
RootIdZero(owners) == 0

RootId(owners) ==
  CHOOSE r \in owners \cup {0} : \A o \in owners \cup {0} : o <= r

(* params[w] is worker w's active parameter.  Every worker overwrites the  *)
(* values of its own names, in order, with the root's values; reading past *)
(* the received vector is undefined.                                       *)
broadcast_parameters(params, proc_id) ==
  IF proc_id >= nprocs THEN {Ret("assert", params)}
  ELSE
    LET vector == ToVector(params[proc_id])
        short == \E w \in Procs : Cardinality(DOMAIN params[w]) > Len(vector)
        new == [w \in Procs |->
                  [nm \in DOMAIN params[w] |->
                     IF Position(params[w], nm) < Len(vector)
                       THEN vector[Position(params[w], nm) + 1] ELSE Zero]]
        sts == [w \in Procs |-> set_parameters(params[w], new[w]).st]
    IN (IF short THEN {Ret("segv", params)} ELSE {})
         \cup {IF Worst(sts) # "ok" THEN Ret(Worst(sts), params) ELSE Ret("ok", new)}

set_params_from_training_set_and_broadcast(index) ==
  IF ~training_parameters_initialized THEN {Ret("assert", parameters)}
  ELSE
    LET tests == {t \in [Procs -> UNION {InLocalRange(w, index) : w \in Procs}] :
                    \A w \in Procs : t[w] \in InLocalRange(w, index)}
        sets == {s \in [Procs -> UNION {set_params_from_training_set(w, index) : w \in Procs}] :
                   \A w \in Procs : s[w] \in set_params_from_training_set(w, index)}
        owners(t) == {w \in Procs : t[w].st = "ok" /\ t[w].val}
        sts(t, s) == [w \in Procs |->
                        IF t[w].st # "ok" THEN t[w].st
                        ELSE IF t[w].val THEN s[w].st ELSE "ok"]
        local(t, s) == [w \in Procs |-> IF w \in owners(t) THEN s[w].val ELSE parameters[w]]
    IN UNION {IF Worst(sts(t, s)) # "ok" THEN {Ret(Worst(sts(t, s)), local(t, s))}
              ELSE broadcast_parameters(local(t, s), RootId(owners(t))) :
                t \in tests, s \in sets}

(* ---------------- load_training_set ---------------- *)
(* comm().sum of the local counts.                                         *)
RankZeroOnly(counts, P) == counts[0]

comm_sum(counts, P) == SumTo(counts, P)

LoadNameSets == {{}, {1}, {2}, {1, 2}}
LoadedValue(nm, r, i) == Rat(10 * nm + MaxLocal * r + i, 1)

(* The caller's argument on every worker: for every name of N, counts[r]   *)
(* values on worker r.                                                     *)
NewTrainingSet(N, counts) ==
  [r \in DOMAIN counts |->
     [nm \in N |-> [i \in 0 .. (counts[r] - 1) |-> LoadedValue(nm, r, i)]]]

(* new_training_set.begin()->second.size(); undefined on an empty map.     *)
LoadLocalCount(new) ==
  IF DOMAIN new = {} THEN {Ret("segv", 0)} \cup {Ret("ok", g) : g \in {0, 1}}
  ELSE {Ret("ok", Cardinality(DOMAIN new[Begin(new)]))}

(* Variant that stores the first supplied value everywhere.                *)
ZeroOffset(index, first_index) == 0

(* index = first_index + i: the supplied position i of a global index.     *)
LocalOffset(index, first_index) == index - first_index

(* Every key of the training set gets a fresh PARALLEL vector, then the    *)
(* keys are filled in order from new[param_name][i]; for a name the        *)
(* argument lacks, operator[] creates an empty vector and the read past    *)
(* its end is undefined (oob: crash, or a garbage value).                  *)
LoadVectors(tp, new, n_global, counts, r, oob) ==
  LET alloc == [nm \in DOMAIN tp |-> InitParallel(n_global, counts, r)]
      bad == {nm \in DOMAIN tp : counts[r] > 0 /\ nm \notin DOMAIN new}
      stop == IF bad = {} \/ oob # "segv" THEN MaxProcs + MaxSamples + 1
              ELSE CHOOSE nm \in bad : \A o \in bad : nm <= o
  IN [st |-> IF bad = {} \/ oob # "segv" THEN "ok" ELSE "segv",
      tp |-> [nm \in DOMAIN tp |->
                IF nm >= stop THEN alloc[nm]
                ELSE [alloc[nm] EXCEPT !.vals =
                        [idx \in DOMAIN alloc[nm].vals |->
                           IF nm \in DOMAIN new THEN new[nm][LocalOffset(idx, alloc[nm].first)]
                           ELSE Zero]]]]

load_training_set(new_training_set, oob) ==
  IF ~training_parameters_initialized THEN {Ret("error", training_parameters)}
  ELSE IF Cardinality(DOMAIN new_training_set[0]) # get_n_params
    THEN {Ret("error", training_parameters)}
  ELSE
    LET reset == [w \in Procs |-> ResetAll(training_parameters[w])]
        locals == {c \in [Procs -> 0 .. MaxLocal] :
                     \A w \in Procs : Ret("ok", c[w]) \in LoadLocalCount(new_training_set[w])}
        per(c) == [w \in Procs |->
                     LoadVectors(reset[w], new_training_set[w], comm_sum(c, nprocs), c, w, oob)]
    IN (IF \E w \in Procs : Ret("segv", 0) \in LoadLocalCount(new_training_set[w])
          THEN {Ret("segv", reset)} ELSE {})
         \cup {Ret(Worst([w \in Procs |-> per(c)[w].st]), [w \in Procs |-> per(c)[w].tp]) :
                 c \in locals}

LoadTrainingSet(N, counts, oob) ==
  /\ \E out \in load_training_set(NewTrainingSet(N, counts), oob) :
       /\ training_parameters' = out.val
       /\ result' = Result("load_training_set", out.st, FALSE, 0, 0, 0,
                           [names |-> N, counts |-> counts])
  /\ UNCHANGED <<nprocs, serial_training_set, training_parameters_initialized,
                 training_parameters_random_seed, parameters_min, parameters_max,
                 discrete_parameter_values, parameters, otherVars>>
  /\ calls' = calls + 1

(* ---------------- reading and activating entries ---------------- *)
GetParamsFromTrainingSet(w, index) ==
  /\ \E out \in get_params_from_training_set(w, index) :
       result' = Result("get_params_from_training_set", out.st, FALSE, 0, w, index, out.val)
  /\ UNCHANGED <<nprocs, serial_training_set, training_parameters_initialized,
                 training_parameters_random_seed, training_parameters, parameters_min,
                 parameters_max, discrete_parameter_values, parameters, otherVars>>
  /\ calls' = calls + 1

SetParamsFromTrainingSet(w, index) ==
  /\ \E out \in set_params_from_training_set(w, index) :
       /\ parameters' = [parameters EXCEPT ![w] = out.val]
       /\ result' = Result("set_params_from_training_set", out.st, FALSE, 0, w, index,
                           EmptyMap)
  /\ UNCHANGED <<nprocs, serial_training_set, training_parameters_initialized,
                 training_parameters_random_seed, training_parameters, parameters_min,
                 parameters_max, discrete_parameter_values, otherVars>>
  /\ calls' = calls + 1

SetParamsFromTrainingSetAndBroadcast(index) ==
  /\ \E out \in set_params_from_training_set_and_broadcast(index) :
       /\ parameters' = out.val
       /\ result' = Result("set_params_from_training_set_and_broadcast", out.st, FALSE, 0,
                           0, index, parameters)
  /\ UNCHANGED <<nprocs, serial_training_set, training_parameters_initialized,
                 training_parameters_random_seed, training_parameters, parameters_min,
                 parameters_max, discrete_parameter_values, otherVars>>
  /\ calls' = calls + 1

IndexChoices == 0 .. MaxSamples
OobChoices == {"segv", "garbage"}
AccessNameSets == {S \in NameSets : Cardinality(S) <= 2}
AccessSizes == {0, MaxSamples - 1, MaxSamples}
(* Local counts that differ between the workers, zero included.            *)
LoadCounts == {[w \in Procs |-> (a + w) % (MaxLocal + 1)] : a \in 0 .. MaxLocal}

(* The training set replaced: any sequence of initializations and loads.   *)
NextLoad ==
  \/ \E b \in BOOLEAN : SetSerialTrainingSet(b)
  \/ calls < MaxOps
       /\ InitializeDeterministic(AccessNameSets, AccessSizes, FALSE, "none")
  \/ calls < MaxOps
       /\ InitializeRandom(AccessNameSets, AccessSizes, FALSE, "none", SkewedClock)
  \/ calls < MaxOps
       /\ \E N \in LoadNameSets : \E counts \in LoadCounts : \E oob \in OobChoices :
            LoadTrainingSet(N, counts, oob)

SpecLoad == Init /\ [][NextLoad]_vars

(* The training set in use: initialized or loaded, read, and activated     *)
(* locally or on every worker.                                             *)
NextAccess ==
  \/ \E b \in BOOLEAN : SetSerialTrainingSet(b)
  \/ calls < MaxOps
       /\ InitializeDeterministic(AccessNameSets, AccessSizes, FALSE, "none")
  \/ calls < MaxOps
       /\ InitializeRandom({{1}}, AccessSizes, FALSE, "none", SkewedClock)
  \/ calls < MaxOps
       /\ \E counts \in LoadCounts : LoadTrainingSet(DOMAIN parameters_min, counts, "segv")
  \/ calls < MaxOps
       /\ \E w \in Procs : \E index \in IndexChoices : GetParamsFromTrainingSet(w, index)
  \/ calls < MaxOps
       /\ \E w \in Procs : \E index \in IndexChoices : SetParamsFromTrainingSet(w, index)
  \/ calls < MaxOps
       /\ \E index \in IndexChoices : SetParamsFromTrainingSetAndBroadcast(index)

SpecAccess == Init /\ [][NextAccess]_vars

(* ---------------- get_global_max_error_pair ---------------- *)
MaxOf2(a, b) == IF a >= b THEN a ELSE b
RECURSIVE MaxUpTo(_, _)
MaxUpTo(f, r) == IF r = 0 THEN f[0] ELSE MaxOf2(f[r], MaxUpTo(f, r - 1))

(* Communicator::maxloc: the global maximum and the rank that holds it,    *)
(* the lowest such rank when several hold it (MPI_MAXLOC).                 *)
maxloc(values, P) ==
  LET mx == MaxUpTo(values, P - 1)
  IN [max |-> mx,
      loc |-> CHOOSE r \in 0 .. (P - 1) :
                values[r] = mx /\ \A o \in 0 .. (P - 1) : values[o] = mx => r <= o]

(* A broadcast of the workers' values x from root: everyone gets x[root].  *)
broadcast(x, root) == [w \in DOMAIN x |-> x[root]]

(* Naive variant: the index is reduced on its own, by a maximum.           *)
IndependentMaxPair(pairs, P) ==
  [w \in 0 .. (P - 1) |->
     <<MaxUpTo([r \in 0 .. (P - 1) |-> pairs[r][1]], P - 1),
       MaxUpTo([r \in 0 .. (P - 1) |-> pairs[r][2]], P - 1)>>]

(* Variant that broadcasts the index from rank 0.                          *)
RootZeroPair(pairs, P) ==
  [w \in 0 .. (P - 1) |->
     <<pairs[0][1], MaxUpTo([r \in 0 .. (P - 1) |-> pairs[r][2]], P - 1)>>]

(* error_pair = (index, bound) on every worker, in and out.                *)
get_global_max_error_pair(pairs, P) ==
  LET red == maxloc([r \in 0 .. (P - 1) |-> pairs[r][2]], P)
      proc_ID_index == red.loc
      firsts == broadcast([r \in 0 .. (P - 1) |-> pairs[r][1]], proc_ID_index)
  IN [w \in 0 .. (P - 1) |-> <<firsts[w], red.max>>]

GetGlobalMaxErrorPair ==
  /\ error_pair' = get_global_max_error_pair(error_pair, nprocs)
  /\ result' = Result("get_global_max_error_pair", "ok", FALSE, 0, 0, 0, error_pair)
  /\ UNCHANGED <<nprocs, serial_training_set, training_parameters_initialized,
                 training_parameters_random_seed, training_parameters,
                 parameters_min, parameters_max, discrete_parameter_values,
                 parameters, calls, rbVars, greedyVars, factoryVars>>

PairIndices == 0 .. MaxLocal
PairBounds == 0 .. MaxLocal

InitPair ==
  /\ nprocs \in 1 .. MaxProcs
  /\ serial_training_set = FALSE
  /\ training_parameters_initialized = FALSE
  /\ training_parameters_random_seed = -1
  /\ training_parameters = [w \in 0 .. (nprocs - 1) |-> EmptyMap]
  /\ parameters_min = EmptyMap
  /\ parameters_max = EmptyMap
  /\ discrete_parameter_values = EmptyMap
  /\ parameters = [w \in 0 .. (nprocs - 1) |-> EmptyMap]
  /\ result = NoResult
  /\ calls = 0
  /\ error_pair \in [0 .. (nprocs - 1) -> PairIndices \X PairBounds]
  /\ RBSystemInit
  /\ GreedyInit
  /\ FactoryInit

NextPair == GetGlobalMaxErrorPair

(* The reduction applied to every combination of submitted pairs.          *)
SpecPair == InitPair /\ [][NextPair]_vars

PairReturned == result.op = "get_global_max_error_pair"

(* C4: after get_global_max_error_pair every worker holds the same pair,   *)
(* its bound is the maximum of the submitted bounds, and its index and its *)
(* bound were submitted together by one worker.                            *)
C4_PairFromOneWorker ==
  PairReturned =>
    /\ \A w \in Procs : error_pair[w] = error_pair[0]
    /\ \A r \in Procs : result.out[r][2] <= error_pair[0][2]
    /\ \E r \in Procs : result.out[r] = error_pair[0]

C4_Witness ==
  /\ PairReturned /\ nprocs = 3
  /\ result.out = (0 :> <<2, 0>> @@ 1 :> <<0, 2>> @@ 2 :> <<1, 1>>)
  /\ error_pair[2] = <<0, 2>>

(* C5: the pair returned is the one submitted by the lowest-ranked worker  *)
(* among those that submitted the maximal bound (the only one when the     *)
(* maximum is unique), on every worker.                                    *)
C5_FirstRankWins ==
  PairReturned =>
    LET holders == {r \in Procs : \A o \in Procs : result.out[o][2] <= result.out[r][2]}
        lowest == CHOOSE r \in holders : \A o \in holders : r <= o
    IN \A w \in Procs : error_pair[w] = result.out[lowest]

C5_Witness ==
  /\ PairReturned /\ nprocs = 3
  /\ result.out = (0 :> <<0, 1>> @@ 1 :> <<1, 2>> @@ 2 :> <<2, 2>>)
  /\ error_pair[0] = <<1, 2>>

(* ---------------- RBSystem: the affine expansion ---------------- *)
MaxTerms == 2
MaxEIMFunctions == 2

(* The RBTheta objects an application can attach.                          *)
Thetas == {1, 2}

(* The affine functions currently held by the attached EIM systems.        *)
RECURSIVE SumFunctions(_, _)
SumFunctions(systems, counts) ==
  IF systems = <<>> THEN 0
  ELSE counts[Head(systems)] + SumFunctions(Tail(systems), counts)

get_n_F_EIM_systems(systems) == Len(systems)
get_n_F_EIM_functions(systems, counts) == SumFunctions(systems, counts)

(* A variant that counts each attached EIM system once.                    *)
CountsSystems(thetas, systems, counts) == Len(thetas) + get_n_F_EIM_systems(systems)

(* get_Q_f: theta_q_f_vector.size() + get_n_F_EIM_functions().             *)
get_Q_f(thetas, systems, counts) == Len(thetas) + get_n_F_EIM_functions(systems, counts)

(* A variant that attaches whatever the state of the system.               *)
AttachUnchecked(vec, theta, initialized) == [st |-> "ok", vec |-> Append(vec, theta)]

(* Attaching a term: refused once the system is initialized, otherwise the *)
(* term goes to the end of the vector.                                      *)
attach_q(vec, theta, initialized) ==
  IF initialized THEN [st |-> "error", vec |-> vec]
  ELSE [st |-> "ok", vec |-> Append(vec, theta)]

attach_A_q(theta_q_a) ==
  /\ Len(theta_q_a_vector) < MaxTerms + (IF RB_system_initialized THEN 1 ELSE 0)
  /\ LET r == attach_q(theta_q_a_vector, theta_q_a, RB_system_initialized)
     IN /\ theta_q_a_vector' = r.vec
        /\ result' = Result("attach_A_q", r.st, FALSE, 0, 0, 0, theta_q_a)
  /\ UNCHANGED <<nprocs, serial_training_set, training_parameters_initialized,
                 training_parameters_random_seed, training_parameters,
                 parameters_min, parameters_max, discrete_parameter_values,
                 parameters, calls, error_pair, greedyVars, factoryVars, theta_q_f_vector,
                 F_EIM_systems_vector, n_affine_functions, RB_system_initialized>>

attach_F_q(theta_q_f) ==
  /\ Len(theta_q_f_vector) < MaxTerms + (IF RB_system_initialized THEN 1 ELSE 0)
  /\ LET r == attach_q(theta_q_f_vector, theta_q_f, RB_system_initialized)
     IN /\ theta_q_f_vector' = r.vec
        /\ result' = Result("attach_F_q", r.st, FALSE, 0, 0, 0, theta_q_f)
  /\ UNCHANGED <<nprocs, serial_training_set, training_parameters_initialized,
                 training_parameters_random_seed, training_parameters,
                 parameters_min, parameters_max, discrete_parameter_values,
                 parameters, calls, error_pair, greedyVars, factoryVars, theta_q_a_vector,
                 F_EIM_systems_vector, n_affine_functions, RB_system_initialized>>

(* attach_F_EIM_vectors: one more EIM system provides right-hand sides.    *)
attach_F_EIM_vectors(eim_system) ==
  /\ \A i \in 1 .. Len(F_EIM_systems_vector) : F_EIM_systems_vector[i] # eim_system
  /\ F_EIM_systems_vector' = Append(F_EIM_systems_vector, eim_system)
  /\ result' = Result("attach_F_EIM_vectors", "ok", FALSE, 0, 0, 0, eim_system)
  /\ UNCHANGED <<nprocs, serial_training_set, training_parameters_initialized,
                 training_parameters_random_seed, training_parameters,
                 parameters_min, parameters_max, discrete_parameter_values,
                 parameters, calls, error_pair, greedyVars, factoryVars, theta_q_a_vector,
                 theta_q_f_vector, n_affine_functions, RB_system_initialized>>

(* An EIM system is trained on its own: the number of affine functions it  *)
(* holds changes, attached or not.                                          *)
EIMFunctionsChange(eim_system, k) ==
  /\ n_affine_functions[eim_system] # k
  /\ n_affine_functions' = [n_affine_functions EXCEPT ![eim_system] = k]
  /\ UNCHANGED <<nprocs, serial_training_set, training_parameters_initialized,
                 training_parameters_random_seed, training_parameters,
                 parameters_min, parameters_max, discrete_parameter_values,
                 parameters, result, calls, error_pair, greedyVars, factoryVars,
                 theta_q_a_vector,
                 theta_q_f_vector, F_EIM_systems_vector, RB_system_initialized>>

initialize_RB_system ==
  /\ ~RB_system_initialized
  /\ RB_system_initialized' = TRUE
  /\ result' = Result("initialize_RB_system", "ok", FALSE, 0, 0, 0, 0)
  /\ UNCHANGED <<nprocs, serial_training_set, training_parameters_initialized,
                 training_parameters_random_seed, training_parameters,
                 parameters_min, parameters_max, discrete_parameter_values,
                 parameters, calls, error_pair, greedyVars, factoryVars, theta_q_a_vector,
                 theta_q_f_vector, F_EIM_systems_vector, n_affine_functions>>

(* A query of get_Q_f.  The result keeps, next to the value returned, the  *)
(* value the preceding query returned when nothing but EIM training        *)
(* happened in between (det says whether there is one).                    *)
GetQf ==
  /\ result' = Result("get_Q_f", "ok", result.op = "get_Q_f", get_Q_f(theta_q_f_vector, F_EIM_systems_vector, n_affine_functions), 0, IF result.op = "get_Q_f" THEN result.n ELSE 0, 0)
  /\ UNCHANGED <<nprocs, serial_training_set, training_parameters_initialized,
                 training_parameters_random_seed, training_parameters,
                 parameters_min, parameters_max, discrete_parameter_values,
                 parameters, calls, error_pair, rbVars, greedyVars, factoryVars>>

InitRegistry == Init /\ nprocs = 1

NextRegistry ==
  \/ \E theta \in Thetas : attach_A_q(theta)
  \/ \E theta \in Thetas : attach_F_q(theta)
  \/ \E e \in EIMSystems : attach_F_EIM_vectors(e)
  \/ \E e \in EIMSystems, k \in 0 .. MaxEIMFunctions : EIMFunctionsChange(e, k)
  \/ initialize_RB_system
  \/ GetQf

(* The registry of one RBSystem under every order of attachments, EIM      *)
(* training, initialization and queries.                                    *)
SpecRegistry == InitRegistry /\ [][NextRegistry]_vars

(* ---------------- collective operations per worker ---------------- *)
(* One collective call as a worker issues it: its kind and its root (the   *)
(* name of the variable holding it, or the constant rank).                 *)
Coll(kind, root) == [kind |-> kind, root |-> root]

(* The collectives worker w enters, in order, during                       *)
(* set_params_from_training_set_and_broadcast(index): none when the        *)
(* assertion, the ownership test or the owner's set_params_from_training_  *)
(* set fails on w, otherwise comm().max(root_id) and the broadcast of      *)
(* broadcast_parameters(root_id).  One sequence per outcome of w's local   *)
(* calls.                                                                  *)
BroadcastCollectives(w, index) ==
  LET both == <<Coll("max", "none"), Coll("broadcast", "root_id")>>
  IN IF ~training_parameters_initialized THEN {<<>>}
     ELSE UNION {IF t.st # "ok" THEN {<<>>}
                 ELSE IF t.val
                   THEN {IF s.st # "ok" THEN <<>> ELSE both :
                           s \in set_params_from_training_set(w, index)}
                 ELSE {both} : t \in InLocalRange(w, index)}

(* get_global_max_error_pair: maxloc, then the broadcast from its result.  *)
PairCollectives(w) == {<<Coll("maxloc", "none"), Coll("broadcast", "proc_ID_index")>>}

(* load_training_set with a map of the names N on worker w: comm().sum     *)
(* after the two checks and the read of new_training_set.begin().          *)
LoadCollectives(w, N) ==
  IF ~training_parameters_initialized THEN {<<>>}
  ELSE IF Cardinality(N) # get_n_params THEN {<<>>}
  ELSE IF N = {} THEN {<<>>, <<Coll("sum", "none")>>}
  ELSE {<<Coll("sum", "none")>>}

(* generate_training_parameters_random: the broadcast of rank 0's time     *)
(* when no seed is set and the training set is serial.                     *)
RandomCollectives(w, min_parameters) ==
  IF DOMAIN min_parameters = {} THEN {<<>>}
  ELSE IF training_parameters_random_seed < 0 /\ serial_training_set
    THEN {<<Coll("broadcast", 0)>>}
  ELSE {<<>>}

(* ---------------- RBSystem: the greedy trainer ---------------- *)
MaxNmax == 3
MaxDeltaN == 2
MaxBound == 2

(* The error bounds a training-set evaluation can report, the tolerances   *)
(* that can be configured, and the training indices that can be selected.  *)
Bounds == 0 .. MaxBound
Tolerances == {1, MaxBound, MaxBound + 1}
TrainingIndices == {0, 1}

(* greedy_termination_test: the maximum bound is below the tolerance or    *)
(* the basis has reached Nmax.                                             *)
greedy_termination_test(training_greedy_error, N) ==
  training_greedy_error < training_tolerance \/ N >= Nmax

(* A variant that adds one basis function whatever delta_N is.             *)
EnrichByOne(N, delta) == N + 1

(* enrich_RB_space: delta_N basis functions are added per iteration.       *)
enrich_RB_space(N, delta) == N + delta

(* update_greedy_param_list: the current parameter is appended.            *)
update_greedy_param_list(list, mu) == Append(list, mu)

InitGreedy ==
  /\ nprocs = 1
  /\ serial_training_set = FALSE
  /\ training_parameters_initialized = FALSE
  /\ training_parameters_random_seed = -1
  /\ training_parameters = [w \in 0 .. (nprocs - 1) |-> EmptyMap]
  /\ parameters_min = EmptyMap
  /\ parameters_max = EmptyMap
  /\ discrete_parameter_values = EmptyMap
  /\ parameters = [w \in 0 .. (nprocs - 1) |-> EmptyMap]
  /\ result = NoResult
  /\ calls = 0
  /\ error_pair = [w \in 0 .. (nprocs - 1) |-> <<0, 0>>]
  /\ RBSystemInit
  /\ FactoryInit
  /\ greedy_state = "Uninitialized"
  /\ Nmax \in 0 .. MaxNmax
  /\ delta_N \in 1 .. MaxDeltaN
  /\ training_tolerance \in Tolerances
  /\ n_basis_functions = 0
  /\ greedy_param_list = <<>>

(* Uninitialized -> TrainingSetReady, by initialize_training_parameters or *)
(* load_training_set.                                                      *)
TrainingSetBecomesReady ==
  /\ greedy_state = "Uninitialized"
  /\ greedy_state' = "TrainingSetReady"
  /\ UNCHANGED <<nprocs, serial_training_set, training_parameters_initialized,
                 training_parameters_random_seed, training_parameters,
                 parameters_min, parameters_max, discrete_parameter_values,
                 parameters, result, calls, error_pair, rbVars, factoryVars, Nmax, delta_N,
                 training_tolerance, n_basis_functions, greedy_param_list>>

(* train_reduced_basis is entered.                                         *)
train_reduced_basis ==
  /\ greedy_state = "TrainingSetReady"
  /\ greedy_state' = "IteratingGreedy"
  /\ UNCHANGED <<nprocs, serial_training_set, training_parameters_initialized,
                 training_parameters_random_seed, training_parameters,
                 parameters_min, parameters_max, discrete_parameter_values,
                 parameters, result, calls, error_pair, rbVars, factoryVars, Nmax, delta_N,
                 training_tolerance, n_basis_functions, greedy_param_list>>

(* One pass of the loop body: the maximum bound training_greedy_error at   *)
(* the training index mu is tested; when training continues the truth      *)
(* solve at mu either fails (Aborted) or the basis is enriched and mu is   *)
(* recorded.                                                               *)
GreedyIteration(training_greedy_error, mu, solved) ==
  /\ greedy_state = "IteratingGreedy"
  /\ IF greedy_termination_test(training_greedy_error, n_basis_functions)
       THEN /\ greedy_state' = "Converged"
            /\ UNCHANGED <<n_basis_functions, greedy_param_list>>
       ELSE IF ~solved
         THEN /\ greedy_state' = "Aborted"
              /\ UNCHANGED <<n_basis_functions, greedy_param_list>>
         ELSE /\ greedy_state' = "IteratingGreedy"
              /\ n_basis_functions' = enrich_RB_space(n_basis_functions, delta_N)
              /\ greedy_param_list' = update_greedy_param_list(greedy_param_list, mu)
  /\ UNCHANGED <<nprocs, serial_training_set, training_parameters_initialized,
                 training_parameters_random_seed, training_parameters,
                 parameters_min, parameters_max, discrete_parameter_values,
                 parameters, result, calls, error_pair, rbVars, factoryVars, Nmax, delta_N,
                 training_tolerance>>

(* The explicit reset: basis, history and training set are wiped.          *)
ClearTrainer ==
  /\ greedy_state # "Uninitialized"
  /\ greedy_state' = "Uninitialized"
  /\ n_basis_functions' = 0
  /\ greedy_param_list' = <<>>
  /\ UNCHANGED <<nprocs, serial_training_set, training_parameters_initialized,
                 training_parameters_random_seed, training_parameters,
                 parameters_min, parameters_max, discrete_parameter_values,
                 parameters, result, calls, error_pair, rbVars, factoryVars, Nmax, delta_N,
                 training_tolerance>>

NextGreedy ==
  \/ TrainingSetBecomesReady
  \/ train_reduced_basis
  \/ \E e \in Bounds, mu \in TrainingIndices, solved \in BOOLEAN : GreedyIteration(e, mu, solved)
  \/ ClearTrainer

(* The greedy trainer for every setting of Nmax, delta_N and the           *)
(* tolerance and every sequence of reported bounds.                        *)
SpecGreedy == InitGreedy /\ [][NextGreedy]_vars

(* ---------------- Factory ---------------- *)
MaxFactories == 3

(* The names factories are registered and requested under.                 *)
FactoryNames == {1, 2, 3}

(* factory_map().count(name)                                               *)
Count(map, name) == IF name \in DOMAIN map THEN 1 ELSE 0

(* factory_map()[name] = f                                                 *)
MapAssign(map, name, f) == [o \in (DOMAIN map) \cup {name} |-> IF o = name THEN f ELSE map[o]]

(* A variant of the lookup that takes the factory of the first name.       *)
LookupFirst(map, name) == map[Begin(map)]

(* Factory<Base> * f = factory_map()[name], for a name that is in the map. *)
Lookup(map, name) == map[name]

(* No object is returned.                                                  *)
NoObject == [name |-> 0, made_by |-> 0]

(* The constructor of the next Factory object, this, with libmesh_assert   *)
(* compiled in (asserts) or not: the assertion stops the program before    *)
(* the object exists; without it the name is mapped to this.               *)
Factory(name, asserts) ==
  /\ Len(factories) < MaxFactories
  /\ LET this == Len(factories) + 1
     IN IF asserts /\ Count(factory_map, name) # 0
          THEN /\ result' = Result("Factory", "assert", asserts, 0, 0, 0, NoObject)
               /\ UNCHANGED <<factory_map, factories>>
          ELSE /\ factory_map' = MapAssign(factory_map, name, this)
               /\ factories' = Append(factories, name)
               /\ result' = Result("Factory", "ok", asserts, 0, 0, 0,
                                   [name |-> name, made_by |-> this])
  /\ UNCHANGED <<nprocs, serial_training_set, training_parameters_initialized,
                 training_parameters_random_seed, training_parameters,
                 parameters_min, parameters_max, discrete_parameter_values,
                 parameters, calls, error_pair, rbVars, greedyVars>>

(* build(name): an error for a name that is not in the map, otherwise the  *)
(* object made by create() of the factory found under the name.            *)
build(name) ==
  /\ IF Count(factory_map, name) = 0
       THEN result' = Result("build", "error", FALSE, 0, 0, name, NoObject)
       ELSE result' = Result("build", "ok", FALSE, 0, 0, name,
                             [name |-> name, made_by |-> Lookup(factory_map, name)])
  /\ UNCHANGED <<nprocs, serial_training_set, training_parameters_initialized,
                 training_parameters_random_seed, training_parameters,
                 parameters_min, parameters_max, discrete_parameter_values,
                 parameters, calls, error_pair, rbVars, greedyVars, factoryVars>>

InitFactory == Init /\ nprocs = 1

NextFactory ==
  \/ \E name \in FactoryNames : \E asserts \in BOOLEAN : Factory(name, asserts)
  \/ \E name \in FactoryNames : build(name)

(* Every sequence of registrations and build calls.                        *)
SpecFactory == InitFactory /\ [][NextFactory]_vars

(* ---------------- properties of the generators ---------------- *)
InitReturned ==
  result.op = "initialize_training_parameters" /\ result.st = "ok"

LocalSize(w, nm) == training_parameters[w][nm].last - training_parameters[w][nm].first

(* The value stored at global index idx of parameter nm by worker w.       *)
Stored(w, nm, idx) == training_parameters[w][nm].vals[idx]
Owns(w, nm, idx) ==
  /\ training_parameters[w][nm].alloc
  /\ training_parameters[w][nm].first <= idx
  /\ idx < training_parameters[w][nm].last

(* C1: after a non-serial initialization of n samples on P workers, worker *)
(* r holds n/P + 1 samples when r < n % P and n/P otherwise, the local     *)
(* counts sum to n, and the local ranges taken in rank order are           *)
(* contiguous, disjoint and cover [0, n); for both generators.             *)
C1_Partition ==
  (InitReturned /\ ~serial_training_set) =>
    \A nm \in DOMAIN parameters_min :
      /\ \A w \in Procs :
           /\ training_parameters[w][nm].alloc
           /\ training_parameters[w][nm].size = result.n
           /\ LocalSize(w, nm) =
                IF w < result.n % nprocs THEN (result.n \div nprocs) + 1
                ELSE result.n \div nprocs
      /\ SumTo([w \in Procs |-> LocalSize(w, nm)], nprocs) = result.n
      /\ training_parameters[0][nm].first = 0
      /\ training_parameters[nprocs - 1][nm].last = result.n
      /\ \A w \in Procs : w + 1 \in Procs =>
           training_parameters[w][nm].last = training_parameters[w + 1][nm].first
      /\ \A idx \in 0 .. (result.n - 1) :
           Cardinality({w \in Procs : Owns(w, nm, idx)}) = 1

C1_Witness ==
  /\ InitReturned /\ ~serial_training_set /\ ~result.det
  /\ nprocs = 3 /\ result.n = 4 /\ DOMAIN parameters_min = {1, 2}
  /\ LocalSize(0, 1) = 2 /\ LocalSize(2, 1) = 1

Allocated(w) == {nm \in DOMAIN training_parameters[w] : training_parameters[w][nm].alloc}

LoadReturned == result.op = "load_training_set" /\ result.st = "ok"

(* C2: in every state reached by initializations and loads, the           *)
(* per-parameter training sequences have one global length on all workers *)
(* and, on each worker, one local index range; after load_training_set    *)
(* the global length is the sum of the workers' supplied local counts and *)
(* the local length is the worker's own count.                            *)
C2_SameShape ==
  /\ \A w \in Procs : \A a \in Allocated(w) : \A b \in Allocated(w) :
       /\ training_parameters[w][a].first = training_parameters[w][b].first
       /\ training_parameters[w][a].last = training_parameters[w][b].last
  /\ \A w \in Procs : \A v \in Procs : \A a \in Allocated(w) : \A b \in Allocated(v) :
       training_parameters[w][a].size = training_parameters[v][b].size
  /\ (LoadReturned /\ result.out.names # {}) =>
       \A w \in Procs : \A nm \in DOMAIN training_parameters[w] :
         /\ training_parameters[w][nm].alloc
         /\ training_parameters[w][nm].size = SumTo(result.out.counts, nprocs)
         /\ LocalSize(w, nm) = result.out.counts[w]

C2_Witness ==
  /\ LoadReturned /\ nprocs = 3 /\ result.out.names = {1, 2}
  /\ result.out.counts = (0 :> 1 @@ 1 :> 2 @@ 2 :> 0)
  /\ training_parameters[1][1].first = 1 /\ training_parameters[1][2].last = 3
  /\ training_parameters[2][2].size = 3 /\ LocalSize(2, 2) = 0

BroadcastReturned ==
  result.op = "set_params_from_training_set_and_broadcast" /\ result.st = "ok"

(* The entry of worker w's part of the training set at a global index.     *)
EntryAt(w, index) ==
  [nm \in DOMAIN training_parameters[w] |-> training_parameters[w][nm].vals[index]]

HoldsIndex(w, index) ==
  /\ DOMAIN training_parameters[w] # {}
  /\ \A nm \in DOMAIN training_parameters[w] : Owns(w, nm, index)

(* C3: after set_params_from_training_set_and_broadcast(index) returns    *)
(* for an index below the number of training samples, some worker owns    *)
(* the index and every worker's active parameter equals the entry stored  *)
(* at it, whatever the workers' active parameters were before.            *)
C3_BroadcastEntry ==
  (/\ BroadcastReturned
   /\ get_n_training_samples(0).st = "ok"
   /\ result.index < get_n_training_samples(0).val) =>
    /\ \E o \in Procs : HoldsIndex(o, result.index)
    /\ \A o \in Procs : HoldsIndex(o, result.index) =>
         \A w \in Procs : parameters[w] = EntryAt(o, result.index)

C3_Witness ==
  /\ BroadcastReturned /\ nprocs = 3 /\ ~serial_training_set
  /\ get_n_training_samples(0) = Ret("ok", MaxSamples)
  /\ result.index = MaxSamples - 1
  /\ HoldsIndex(2, result.index)
  /\ result.out[0] # result.out[1]
  /\ result.out[0] # EntryAt(2, result.index)
  /\ parameters[0] = EntryAt(2, result.index)

LocalRangeHolds(w, index) ==
  /\ DOMAIN training_parameters[w] # {}
  /\ Owns(w, Begin(training_parameters[w]), index)

(* C6: get_params_from_training_set(index) on worker w is rejected when   *)
(* training is not initialized or the index is outside the worker's local *)
(* range; inside the range it returns the stored value of every parameter *)
(* name; it changes neither the training set nor the active parameter.    *)
C6_GetParams ==
  [][result'.op = "get_params_from_training_set" =>
       /\ training_parameters' = training_parameters
       /\ parameters' = parameters
       /\ (~training_parameters_initialized \/ ~LocalRangeHolds(result'.w, result'.index))
            => result'.st = "assert"
       /\ (training_parameters_initialized /\ LocalRangeHolds(result'.w, result'.index))
            => /\ result'.st = "ok"
               /\ result'.out = EntryAt(result'.w, result'.index)]_vars

OneLinearGrid ==
  /\ InitReturned /\ result.det
  /\ Cardinality(DOMAIN parameters_min) = 1
  /\ DOMAIN discrete_parameter_values = {}
  /\ ~result.out[Begin(result.out)]
  /\ result.n >= 1

(* C7: one parameter, linear scaling, deterministic: sample[0] = mu_min,   *)
(* sample[n-1] = mu_max exactly, strictly increasing in between.           *)
C7_LinearGridEndpoints ==
  OneLinearGrid =>
    LET nm == Begin(parameters_min)
        sample(idx) == Stored(CHOOSE w \in Procs : Owns(w, nm, idx), nm, idx)
    IN /\ sample(0) = Rat(parameters_min[nm], 1)
       /\ sample(result.n - 1) = Rat(parameters_max[nm], 1)
       /\ \A idx \in 0 .. (result.n - 2) : RLess(sample(idx), sample(idx + 1))

(* The i-th of k evenly spaced points of parameter nm, as the grid         *)
(* defines it.                                                             *)
GridPoint(nm, use_log, i, k) ==
  IF use_log
    THEN IF i < k - 1
           THEN Pow10Grid(parameters_min[nm], parameters_max[nm], i, Max1(k - 1))
           ELSE Rat(parameters_max[nm], 1)
    ELSE Rat(parameters_min[nm] * Max1(k - 1) + i * (parameters_max[nm] - parameters_min[nm]),
             Max1(k - 1))

(* C8: two parameters, n = k*k: the entry at global index i1*k + i2 holds  *)
(* the i1-th grid value of the first parameter and the i2-th grid value of *)
(* the second, on every worker that owns the index, and every index has an *)
(* owner.                                                                  *)
C8_CartesianGrid ==
  (InitReturned /\ result.det /\ Cardinality(DOMAIN parameters_min) = 2) =>
    LET k == ISqrt(result.n)
        first == Begin(parameters_min)
        second == Second(parameters_min)
    IN /\ k * k = result.n
       /\ \A i1 \in 0 .. (k - 1) : \A i2 \in 0 .. (k - 1) :
            /\ \E w \in Procs : Owns(w, first, i1 * k + i2)
            /\ \A w \in Procs : Owns(w, first, i1 * k + i2) =>
                 /\ Owns(w, second, i1 * k + i2)
                 /\ Stored(w, first, i1 * k + i2) = GridPoint(first, result.out[first], i1, k)
                 /\ Stored(w, second, i1 * k + i2) = GridPoint(second, result.out[second], i2, k)

C8_Witness ==
  /\ InitReturned /\ result.det /\ DOMAIN parameters_min = {1, 2} /\ result.n = 4
  /\ nprocs = 3 /\ ~serial_training_set
  /\ result.out[1] /\ ~result.out[2]
  /\ Stored(1, 2, 2) = Rat(1, 1) /\ Stored(2, 2, 3) = Rat(3, 1)
  /\ Stored(2, 1, 3) = Rat(2, 1)

NonSquareCall ==
  /\ result.op = "initialize_training_parameters" /\ result.det
  /\ Cardinality(DOMAIN parameters_min) = 2
  /\ ISqrt(result.n) * ISqrt(result.n) # result.n

(* C9: a two-parameter deterministic initialization whose n is not a       *)
(* perfect square ends with the configuration error, no sample has been    *)
(* written, and the call does not change the initialized flag.             *)
C9_NonSquareFails ==
  [][NonSquareCall' =>
       /\ result'.st = "error"
       /\ training_parameters_initialized' = training_parameters_initialized
       /\ \A w \in Procs : \A nm \in DOMAIN training_parameters'[w] :
            \A idx \in DOMAIN training_parameters'[w][nm].vals :
              training_parameters'[w][nm].vals[idx] = Zero]_vars

C9_Witness ==
  /\ NonSquareCall /\ result.st = "error" /\ result.n = 3
  /\ training_parameters_initialized
  /\ training_parameters[0][1].alloc /\ training_parameters[0][1].size = 3

(* C10: with 0 declared parameters, after initialize_training_parameters   *)
(* returns the training set is empty, training is flagged initialized and  *)
(* get_n_training_samples returns 0.                                       *)
C10_ZeroParameters ==
  (InitReturned /\ DOMAIN parameters_min = {}) =>
    /\ training_parameters_initialized
    /\ \A w \in Procs :
         /\ DOMAIN training_parameters[w] = {}
         /\ get_n_training_samples(w) = Ret("ok", 0)

(* The training set worker w generates before the snapping pass, in a step *)
(* that is an initialize_training_parameters call under clocks time.       *)
GeneratedBy(w, time) ==
  IF result'.det
    THEN generate_training_parameters_deterministic(
           training_parameters[w], result'.out, result'.n, parameters_min',
           parameters_max', serial_training_set, nprocs, w).tp
    ELSE generate_training_parameters_random(
           training_parameters[w], result'.out, result'.n, parameters_min',
           parameters_max', training_parameters_random_seed, serial_training_set,
           nprocs, w, time).tp

C12_SnapIdempotent ==
  InitReturned =>
    /\ \A nm \in DOMAIN discrete_parameter_values :
         \A i \in DOMAIN discrete_parameter_values[nm] :
           get_closest_value(discrete_parameter_values[nm][i],
                             discrete_parameter_values[nm])
             = discrete_parameter_values[nm][i]
    /\ \A w \in Procs :
         SnapDiscrete(training_parameters[w], discrete_parameter_values)
           = training_parameters[w]

C12_Witness ==
  /\ InitReturned /\ ~result.det /\ nprocs = 2 /\ result.n = MaxSamples
  /\ DOMAIN discrete_parameter_values = {1}
  /\ Stored(1, 1, 2) \in {Rat(1, 1), Rat(2, 1)}
  /\ SnapDiscrete(training_parameters[1], discrete_parameter_values) = training_parameters[1]

(* C13: load_training_set ends with the error when training is not         *)
(* initialized and whenever the names of the supplied values are not the   *)
(* names of the existing training set, also when the two sets have the     *)
(* same size; when it succeeds the training set has the keys it had.       *)
C13_LoadRejectsOtherNames ==
  [][result'.op = "load_training_set" =>
       /\ ~training_parameters_initialized =>
            (result'.st = "error" /\ training_parameters' = training_parameters)
       /\ \A w \in Procs :
            (training_parameters_initialized
               /\ result'.out.names # DOMAIN training_parameters[w])
              => result'.st = "error"
       /\ result'.st = "ok" =>
            \A w \in Procs : DOMAIN training_parameters'[w] = DOMAIN training_parameters[w]]_vars

(* C14: a get_params_from_training_set(first_local + i) that follows a     *)
(* successful load_training_set of values for the training set's names     *)
(* returns, for i below the worker's supplied count, values[name][i] for   *)
(* every name and nothing else; the load leaves each worker exactly as     *)
(* many entries as it supplied.                                            *)
C14_LoadThenRead ==
  [][(/\ LoadReturned
      /\ result.out.names # {}
      /\ \A w \in Procs : DOMAIN training_parameters[w] = result.out.names
      /\ result'.op = "get_params_from_training_set") =>
       LET w == result'.w
           first_local == training_parameters[w][Begin(training_parameters[w])].first
           i == result'.index - first_local
       IN /\ \A nm \in result.out.names : LocalSize(w, nm) = result.out.counts[w]
          /\ (0 <= i /\ i < result.out.counts[w]) =>
               /\ result'.st = "ok"
               /\ result'.out = [nm \in result.out.names |-> LoadedValue(nm, w, i)]]_vars

C14_Witness ==
  /\ result.op = "get_params_from_training_set" /\ result.st = "ok"
  /\ nprocs = 2 /\ result.w = 1 /\ result.index = 2
  /\ result.out = [nm \in {1, 2} |-> LoadedValue(nm, 1, 1)]
  /\ training_parameters[1][1].first = 1 /\ training_parameters[1][1].last = 3

RandomReturned == InitReturned /\ ~result.det

(* C15: after a random initialization in serial mode all workers have      *)
(* seeded with the same value, under the caller's seed and under any       *)
(* clocks, every worker holds all n samples of every parameter, and the    *)
(* workers' training sets are equal.                                       *)
C15_SerialIdentical ==
  (RandomReturned /\ serial_training_set) =>
    /\ \A time \in TimeChoices : \A w \in Procs :
         SrandArgument(training_parameters_random_seed, TRUE, w, time)
           = SrandArgument(training_parameters_random_seed, TRUE, 0, time)
    /\ \A w \in Procs :
         /\ training_parameters[w] = training_parameters[0]
         /\ \A nm \in DOMAIN parameters_min :
              /\ training_parameters[w][nm].alloc
              /\ training_parameters[w][nm].first = 0
              /\ training_parameters[w][nm].last = result.n

C15_Witness ==
  /\ RandomReturned /\ serial_training_set /\ nprocs = 3 /\ result.n = MaxSamples
  /\ training_parameters_random_seed = 1
  /\ DOMAIN parameters_min = {1, 2}
  /\ Stored(2, 1, 0) = Stored(0, 1, 0) /\ Stored(2, 2, 3) = Stored(0, 2, 3)
  /\ Stored(0, 1, 0) # Stored(0, 1, 1)

(* C16: after a random initialization in parallel mode any two workers of  *)
(* different ranks have seeded with different values, under the caller's   *)
(* seed and under any clocks.                                              *)
C16_RanksSeedDifferently ==
  (RandomReturned /\ ~serial_training_set) =>
    \A time \in TimeChoices : \A w \in Procs : \A v \in Procs :
      w # v => SrandArgument(training_parameters_random_seed, FALSE, w, time)
                 # SrandArgument(training_parameters_random_seed, FALSE, v, time)

(* ---------------- properties of the affine expansion ---------------- *)
(* The right-hand-side terms the attached EIM systems contribute now.      *)
EIMContribution ==
  LET S == {F_EIM_systems_vector[i] : i \in 1 .. Len(F_EIM_systems_vector)}
      RECURSIVE Total(_)
      Total(T) == IF T = {} THEN 0
                  ELSE LET e == CHOOSE x \in T : TRUE
                       IN n_affine_functions[e] + Total(T \ {e})
  IN Total(S)

(* C17: every query of get_Q_f returns the number of hand-attached         *)
(* right-hand-side terms plus the number of functions the attached EIM     *)
(* systems hold at the time of the query, so that a change of an EIM       *)
(* system between two queries shows in the second one.                     *)
C17_QfCountsCurrent ==
  [][(result'.op = "get_Q_f" /\ UNCHANGED rbVars)
       => result'.n = Len(theta_q_f_vector) + EIMContribution]_vars

(* A second query after an attached EIM system grew from 0 to 2 functions. *)
C17_Witness ==
  /\ result.op = "get_Q_f" /\ result.det
  /\ result.index = 1 /\ result.n = 3
  /\ Len(theta_q_f_vector) = 1
  /\ F_EIM_systems_vector = <<2>>
  /\ n_affine_functions[2] = 2

(* The terms of a vector keep their places over a step.                    *)
KeepsIndices(old, new) ==
  /\ Len(new) >= Len(old)
  /\ \A i \in 1 .. Len(old) : new[i] = old[i]

(* The outcome of one attach call on a vector: before initialization the   *)
(* new term takes the index equal to the number of terms attached so far   *)
(* (0-based, so position Len + 1 of the sequence) and the others stay;     *)
(* after initialization the call fails and the vector is unchanged.        *)
AttachOutcome(old, new) ==
  IF RB_system_initialized
  THEN result'.st = "error" /\ new = old
  ELSE /\ result'.st = "ok"
       /\ Len(new) = Len(old) + 1
       /\ new[Len(old) + 1] = result'.out
       /\ KeepsIndices(old, new)

(* C18: attach_A_q and attach_F_q number the terms 0, 1, 2, ... in         *)
(* attachment order, no step changes the index of an attached term, and    *)
(* an attach call on an initialized system fails with an error and leaves  *)
(* both term lists and the initialized flag unchanged.                     *)
C18_AttachIndices ==
  [][/\ KeepsIndices(theta_q_a_vector, theta_q_a_vector')
     /\ KeepsIndices(theta_q_f_vector, theta_q_f_vector')
     /\ (result'.op = "attach_A_q" /\ UNCHANGED n_affine_functions) =>
          /\ AttachOutcome(theta_q_a_vector, theta_q_a_vector')
          /\ UNCHANGED <<theta_q_f_vector, RB_system_initialized>>
     /\ (result'.op = "attach_F_q" /\ UNCHANGED n_affine_functions) =>
          /\ AttachOutcome(theta_q_f_vector, theta_q_f_vector')
          /\ UNCHANGED <<theta_q_a_vector, RB_system_initialized>>]_vars

(* An attach_A_q refused after initialization, with two operators attached *)
(* before it in the order 2, 1.                                             *)
C18_Witness ==
  /\ result.op = "attach_A_q" /\ result.st = "error"
  /\ RB_system_initialized
  /\ theta_q_a_vector = <<2, 1>>
  /\ Len(theta_q_f_vector) = 1

(* ---------------- properties of clear ---------------- *)
(* C20: after clear() the training set is empty and training is no longer  *)
(* flagged initialized, so that the training-set accessors are rejected    *)
(* until initialize_training_parameters is called again.                   *)
C20_ClearUninitializes ==
  result.op = "clear" =>
    /\ \A w \in Procs : DOMAIN training_parameters[w] = {}
    /\ ~training_parameters_initialized
    /\ \A w \in Procs : get_n_training_samples(w).st # "ok"

(* ---------------- properties of index ownership ---------------- *)
(* The training set is one on which the index accessors are defined: it is *)
(* flagged initialized and the first key of every worker's map holds an    *)
(* allocated vector.                                                       *)
AccessorsDefined ==
  /\ training_parameters_initialized
  /\ \A w \in Procs : /\ DOMAIN training_parameters[w] # {}
                       /\ training_parameters[w][Begin(training_parameters[w])].alloc

(* The workers on which first_local <= index < last_local.                 *)
IndexOwners(index) == {w \in Procs : Ret("ok", TRUE) \in InLocalRange(w, index)}

(* Every worker's first vector spans the whole training set.               *)
EveryWorkerHoldsAll ==
  \A w \in Procs :
    LET v == training_parameters[w][Begin(training_parameters[w])]
    IN v.first = 0 /\ v.last = v.size

BelowMax(x, hi) ==
  IF x.k = "rat" THEN RLess(x, Rat(hi, 1))
  ELSE x.k = "pow10grid" /\ x.j <= x.m /\ x.a < x.b /\ x.b = hi

OneParameterGrid ==
  /\ InitReturned /\ result.det
  /\ Cardinality(DOMAIN parameters_min) = 1
  /\ DOMAIN discrete_parameter_values = {}
  /\ result.n >= 1

(* C22: one parameter, deterministic, log or linear scaling, n >= 1: every *)
(* index below n is stored by some worker, the point at the last index     *)
(* n - 1 is mu_max itself, and with log scaling every other point is       *)
(* strictly below mu_max.                                                  *)
C22_LastPointIsMax ==
  OneParameterGrid =>
    LET nm == Begin(parameters_min)
        sample(idx) == Stored(CHOOSE w \in Procs : Owns(w, nm, idx), nm, idx)
    IN /\ \A idx \in 0 .. (result.n - 1) : \E w \in Procs : Owns(w, nm, idx)
       /\ \A w \in Procs : training_parameters[w][nm].size = result.n
       /\ sample(result.n - 1) = Rat(parameters_max[nm], 1)
       /\ result.out[nm] =>
            \A idx \in 0 .. (result.n - 2) : BelowMax(sample(idx), parameters_max[nm])

(* ---------------- properties of the collectives ---------------- *)
(* C23: in set_params_from_training_set_and_broadcast,                     *)
(* get_global_max_error_pair, load_training_set and                        *)
(* generate_training_parameters_random every worker enters the same        *)
(* sequence of collectives with the same roots, so that no worker waits in *)
(* a collective another worker never enters.                               *)
C23_SameCollectives ==
  \A w1 \in Procs : \A w2 \in Procs \ {w1} :
    /\ \A index \in IndexChoices :
         \A a \in BroadcastCollectives(w1, index) :
           \A b \in BroadcastCollectives(w2, index) : a = b
    /\ \A a \in PairCollectives(w1) : \A b \in PairCollectives(w2) : a = b
    /\ \A N \in LoadNameSets :
         \A a \in LoadCollectives(w1, N) : \A b \in LoadCollectives(w2, N) : a = b
    /\ \A a \in RandomCollectives(w1, parameters_min) :
         \A b \in RandomCollectives(w2, parameters_min) : a = b

C25_KeysAreDeclaredNames ==
  InitReturned =>
    \A w \in Procs :
      /\ DOMAIN training_parameters[w] = DOMAIN parameters_min
      /\ \A nm \in DOMAIN training_parameters[w] : training_parameters[w][nm].alloc

(* ---------------- properties of a failed initialization ---------------- *)
(* C26: when initialize_training_parameters fails in deterministic mode    *)
(* (more than two parameters, or two parameters and a sample count that    *)
(* is not a perfect square) the training set that existed before the call  *)
(* is unchanged: same names, lengths, values and initialized flag.         *)
C26_FailureKeepsTrainingSet ==
  [][(/\ result'.op = "initialize_training_parameters"
      /\ result'.det
      /\ result'.st \in {"error", "not_implemented"}
      /\ calls' = calls + 1)
       => UNCHANGED <<training_parameters, training_parameters_initialized>>]_vars

(* ---------------- serial and parallel deterministic sets ---------------- *)
(* The training set one worker alone generates in serial mode from the     *)
(* arguments of the last initialization.                                   *)
SerialReference ==
  SnapDiscrete(generate_training_parameters_deterministic(EmptyMap, result.out, result.n,
                 parameters_min, parameters_max, TRUE, 1, 0).tp, discrete_parameter_values)

DeterministicReturned ==
  InitReturned /\ result.det /\ DOMAIN parameters_min # {}

(* C27: in deterministic mode the value stored at a global index depends   *)
(* only on the index, mu_min, mu_max, the scaling flags and n_samples: for *)
(* every worker count, every index below n_samples is stored by some       *)
(* worker, every worker that stores it holds the value of the serial set   *)
(* at that index, and in serial mode every worker holds the whole serial   *)
(* set.                                                                    *)
C27_ShardsEqualSerialSet ==
  DeterministicReturned =>
    \A nm \in DOMAIN parameters_min :
      /\ \A idx \in 0 .. (result.n - 1) :
           /\ \E w \in Procs : Owns(w, nm, idx)
           /\ \A w \in Procs :
                Owns(w, nm, idx) => Stored(w, nm, idx) = SerialReference[nm].vals[idx]
      /\ serial_training_set =>
           \A w \in Procs : training_parameters[w][nm] = SerialReference[nm]

(* A two-parameter grid of four points distributed over three workers.     *)
C27_Witness ==
  /\ DeterministicReturned
  /\ nprocs = 3 /\ ~serial_training_set
  /\ result.n = 4
  /\ Cardinality(DOMAIN parameters_min) = 2
  /\ \E nm \in DOMAIN parameters_min : result.out[nm]

(* ---------------- properties of an index nobody owns ---------------- *)
(* C28: set_params_from_training_set_and_broadcast(index) with an index    *)
(* that no worker owns (at or beyond the number of samples, or an empty    *)
(* training set) fails; it never completes, with worker 0's parameters     *)
(* broadcast to every worker.                                              *)
C28_UnownedIndexFails ==
  (/\ result.op = "set_params_from_training_set_and_broadcast"
   /\ training_parameters_initialized
   /\ \/ AccessorsDefined /\ IndexOwners(result.index) = {}
      \/ \A w \in Procs : DOMAIN training_parameters[w] = {})
    => result.st # "ok"

(* ---------------- properties of a supplied seed ---------------- *)
(* C29: once a seed has been supplied through set_training_random_seed     *)
(* (the member no longer holds the constructor's -1), random generation    *)
(* seeds from that value, for every unsigned value including 0 and the     *)
(* values at or above half the range: the argument of srand does not       *)
(* depend on the clocks, and in serial mode it is the supplied value.      *)
C29_SuppliedSeedIsUsed ==
  (RandomReturned /\ training_parameters_random_seed # -1) =>
    \A w \in Procs :
      /\ \A t1 \in TimeChoices : \A t2 \in TimeChoices :
           SrandArgument(training_parameters_random_seed, serial_training_set, w, t1)
             = SrandArgument(training_parameters_random_seed, serial_training_set, w, t2)
      /\ serial_training_set =>
           \A t \in TimeChoices :
             SrandArgument(training_parameters_random_seed, TRUE, w, t)
               = training_parameters_random_seed % (2 ^ SeedBits)

(* ---------------- properties of the factory ---------------- *)
(* C30: every registered name maps to one Factory object, constructed      *)
(* with that name; constructing a factory for a registered name violates   *)
(* the assertion and leaves the map as it was; build(name) for a           *)
(* registered name returns an object made by the factory registered under  *)
(* that name; build(name) for an unregistered name raises an error,        *)
(* returns no object and adds no entry.                                    *)
C30_FactoryRegistry ==
  [][/\ \A name \in DOMAIN factory_map' :
          /\ factory_map'[name] \in DOMAIN factories'
          /\ factories'[factory_map'[name]] = name
     /\ (result'.op = "Factory" /\ result'.st = "assert") =>
          /\ UNCHANGED <<factory_map, factories>>
          /\ \E name \in DOMAIN factory_map : TRUE
     /\ (result'.op = "Factory" /\ result'.st = "ok" /\ factories' # factories) =>
          /\ (result'.det => result'.out.name \notin DOMAIN factory_map)
          /\ factory_map'[result'.out.name] = Len(factories')
          /\ \A o \in DOMAIN factory_map :
               o # result'.out.name => factory_map'[o] = factory_map[o]
     /\ (result'.op = "build" /\ factories' = factories) =>
          /\ factory_map' = factory_map
          /\ IF result'.index \in DOMAIN factory_map
               THEN /\ result'.st = "ok"
                    /\ result'.out.made_by \in DOMAIN factories
                    /\ factories[result'.out.made_by] = result'.index
                    /\ result'.out.made_by = factory_map[result'.index]
               ELSE /\ result'.st = "error"
                    /\ result'.out = NoObject]_vars

(* build(2) returning an object of the third factory, registered as 2      *)
(* after two factories were registered as 1 (the second without the        *)
(* assertion compiled in).                                                 *)
C30_Witness ==
  /\ result.op = "build" /\ result.st = "ok" /\ result.index = 2
  /\ result.out.made_by = 3
  /\ factories = <<1, 1, 2>>

====
